---- MODULE Spec2Model ----
(***************************************************************************)
(* The multi-agent question-answering pipeline of ikms-final:              *)
(*   qa_endpoint -> answer_question -> run_qa_flow -> compiled graph       *)
(*   (planning -> retrieval -> summarization -> verification).             *)
(*                                                                         *)
(* Text is a sequence of tokens (a token is a TLA+ string standing for a   *)
(* run of characters); " ", "\n" and "\t" are the whitespace tokens.       *)
(* Python values are tagged records.  The language model and the vector    *)
(* index are external: what they return is chosen nondeterministically     *)
(* from small sets.                                                        *)
(***************************************************************************)
EXTENDS Integers, Sequences, FiniteSets, TLC

VARIABLES
    call,      \* the call made by the outside world (HTTP payload or direct call)
    pc,        \* position of the request: "request", a node name, END, "Done", "Failed",
               \* "Rejected" (400), or "blocked" (an external call that never returns)
    state,     \* the QAState record threaded through the graph
    messages,  \* result["messages"] of the latest agent invocation that returned
    trace,     \* the nodes executed so far, in order, each with whether it raised
    error,     \* the exception that left run_qa_flow / answer_question, or NoError
    result,    \* the dictionary returned by run_qa_flow, or NoResult
    service,   \* the arguments qa_endpoint passed to answer_question, or NoCall
    response,  \* the HTTP response of qa_endpoint, or NoResponse
    peer       \* the record of another request in flight in the same process, or NoPeer

vars == <<call, pc, state, messages, trace, error, result, service, response, peer>>

----------------------------------------------------------------------------
(* Bounds of the model *)

MaxQuestionLen == 2
MaxSubQuestions == 2
MaxToolCalls == 2
MaxDocs == 2
MaxRetrievalK == 5

SeqsUpTo(S, n) == UNION {[1..k -> S] : k \in 0..n}

Range(s) == {s[i] : i \in 1..Len(s)}

----------------------------------------------------------------------------
(* Python values *)

\* The grave accent (U+0060) that api.py's messages put around a name
\* (lines 81 and 98).  A string literal of TLA+ cannot hold the character,
\* so texts carry it as a token of its own.
GraveAccent == "U+0060"

None == [t |-> "None"]
Str(s) == [t |-> "str", s |-> s]
Num(n) == [t |-> "int", n |-> n]
List(l) == [t |-> "list", l |-> l]
Dict(d) == [t |-> "dict", d |-> d]

\* bool(v): Python truthiness, as used by `if plan:` / `if sub_questions:` / `a or b`
Truthy(v) ==
    CASE v.t = "None" -> FALSE
      [] v.t = "str"  -> v.s # <<>>
      [] v.t = "int"  -> v.n # 0
      [] v.t = "list" -> v.l # <<>>
      [] v.t = "dict" -> DOMAIN v.d # {}

\* Outcome of evaluating an expression: a value or a raised exception
Ok(v) == [ok |-> TRUE, v |-> v]
Raise(e) == [ok |-> FALSE, exc |-> e]

\* An exception object: its class name and str(exc) as text
Exc(cls, msg) == [cls |-> cls, msg |-> msg]

NoError == Exc("", <<>>)
NoResult == [t |-> "NoResult"]
NoResponse == [status |-> 0]
NoCall == [t |-> "NoCall"]
NoPeer == [t |-> "NoPeer"]

Whitespace == {" ", "\n", "\t"}

RECURSIVE lstrip(_)
lstrip(s) == IF s # <<>> /\ Head(s) \in Whitespace THEN lstrip(Tail(s)) ELSE s

RECURSIVE rstrip(_)
rstrip(s) ==
    IF s # <<>> /\ s[Len(s)] \in Whitespace THEN rstrip(SubSeq(s, 1, Len(s) - 1)) ELSE s

\* str.strip()
\* (variant: the question is used as sent, without .strip())
strip_omitted(s) == s

strip(s) == rstrip(lstrip(s))

\* sep.join(parts)
RECURSIVE join(_, _)
join(sep, parts) ==
    IF parts = <<>> THEN <<>>
    ELSE IF Len(parts) = 1 THEN parts[1]
    ELSE parts[1] \o sep \o join(sep, Tail(parts))

\* `needle in text` for a needle that is one token of the text
Contains(text, needle) == needle \in Range(text)

----------------------------------------------------------------------------
(* Messages exchanged with the agents *)

HumanMessage(c) == [type |-> "HumanMessage", content |-> c]
AIMessage(c) == [type |-> "AIMessage", content |-> c]
\* A tool's (content, artifact) pair becomes the ToolMessage's content and artifact
ToolMessage(c, a) == [type |-> "ToolMessage", content |-> c, artifact |-> a]
\* The assistant message that asks for one retrieval_tool call with `query`
ToolCallMessage(query) == [type |-> "AIMessage", content |-> <<>>, tool_calls |-> <<query>>]

\* Exceptions the OpenAI client raises from agent.invoke
AuthenticationError ==
    Exc("AuthenticationError", <<"Error code: 401 - ", "Incorrect API key", " provided">>)
APIConnectionError == Exc("APIConnectionError", <<"Connection error.">>)
APITimeoutError == Exc("APITimeoutError", <<"Request timed out.">>)

ModelErrors == {AuthenticationError, APIConnectionError, APITimeoutError}

----------------------------------------------------------------------------
(* QAState *)

Fields == {"question", "plan", "sub_questions", "context", "draft_answer", "answer"}

\* No run has started: there is no state record yet
NoState == [f \in Fields |-> None]

\* run_qa_flow's initial_state
initial_state(question) ==
    [f \in Fields |-> IF f = "question" THEN Str(question) ELSE None]

\* LangGraph merges the partial dictionary a node returns into the state
Merge(st, update) ==
    [f \in Fields |-> IF f \in DOMAIN update THEN update[f] ELSE st[f]]

----------------------------------------------------------------------------
(* The planner's output text and json.loads *)

\* The final message of the planning agent is either one JSON document and
\* nothing else, or text that is not one JSON document (prose, prose around a
\* JSON object, a fenced block).
JsonText(doc) == [form |-> "json", doc |-> doc]
ProseText == [form |-> "prose"]
ProseAroundJson(doc) == [form |-> "prose+json", doc |-> doc]

PlanValues == {Str(<<"p">>), Str(<<>>), None}
SubQuestionItems == {Str(<<"a">>), Str(<<>>)}
SubQuestionValues ==
    {None, Num(5)} \cup {List(l) : l \in SeqsUpTo(SubQuestionItems, MaxSubQuestions)}
ExtraValues == {Str(<<"x">>)}

PlannerKeys == {"plan", "sub_questions", "notes"}

KeyValues(k) ==
    CASE k = "plan" -> PlanValues
      [] k = "sub_questions" -> SubQuestionValues
      [] OTHER -> ExtraValues

\* JSON objects over any subset of the keys
PlannerDicts ==
    UNION {{Dict(d) : d \in {f \in [K -> PlanValues \cup SubQuestionValues \cup ExtraValues] :
                                \A k \in K : f[k] \in KeyValues(k)}} :
           K \in SUBSET PlannerKeys}

\* JSON documents that are not objects
PlannerNonDicts == {List(<<>>), Str(<<"p">>), Num(5), None}

WellFormedPlan ==
    Dict([k \in {"plan", "sub_questions"} |->
            IF k = "plan" THEN Str(<<"p">>) ELSE List(<<Str(<<"a">>)>>)])

PlannerTexts ==
    {JsonText(d) : d \in PlannerDicts \cup PlannerNonDicts}
        \cup {ProseText, ProseAroundJson(WellFormedPlan)}

\* json.loads(text)
json_loads(text) ==
    CASE text.form = "json" -> Ok(text.doc)
      [] text.form = "prose" ->
            Raise(Exc("JSONDecodeError", <<"Expecting value: line 1 column 1 (char 0)">>))
      [] text.form = "prose+json" ->
            Raise(Exc("JSONDecodeError", <<"Expecting value: line 1 column 1 (char 0)">>))

\* obj[key] for a string key
GetItem(obj, key) ==
    CASE obj.t = "dict" ->
            IF key \in DOMAIN obj.d THEN Ok(obj.d[key])
            ELSE Raise(Exc("KeyError", <<"'" \o key \o "'">>))
      [] obj.t = "list" ->
            Raise(Exc("TypeError", <<"list indices must be integers or slices, not str">>))
      [] obj.t = "str" ->
            Raise(Exc("TypeError", <<"string indices must be integers, not 'str'">>))
      [] obj.t = "int" ->
            Raise(Exc("TypeError", <<"'int' object is not subscriptable">>))
      [] obj.t = "None" ->
            Raise(Exc("TypeError", <<"'NoneType' object is not subscriptable">>))

----------------------------------------------------------------------------
(* Nodes.  Each takes the state and the outcome of its agent's invoke, and  *)
(* gives Ok(partial state update) or Raise(exception).                      *)

\* What planning_agent.invoke can do: raise, or return messages ending in the
\* assistant's final message
PlanningInvocations(st) ==
    {Raise(e) : e \in ModelErrors}
        \cup {Ok(<<HumanMessage(st["question"].s), AIMessage(t)>>) : t \in PlannerTexts}

\* (variant: a parse failure is swallowed and the node returns no update)
planning_node_swallowing(st, invoked) ==
    IF ~invoked.ok THEN invoked
    ELSE
        LET Structured_plan == json_loads(invoked.v[Len(invoked.v)].content)
        IN  IF ~Structured_plan.ok THEN Ok([k \in {} |-> None])
            ELSE
                LET plan == GetItem(Structured_plan.v, "plan")
                    sub_questions == GetItem(Structured_plan.v, "sub_questions")
                IN  IF ~plan.ok THEN plan
                    ELSE IF ~sub_questions.ok THEN sub_questions
                    ELSE Ok([k \in {"plan", "sub_questions"} |->
                                IF k = "plan" THEN plan.v ELSE sub_questions.v])

\* (variant: a missing sub_questions key is tolerated and the plan alone is
\* written)
planning_node_partial(st, invoked) ==
    IF ~invoked.ok THEN invoked
    ELSE
        LET Structured_plan == json_loads(invoked.v[Len(invoked.v)].content)
        IN  IF ~Structured_plan.ok THEN Structured_plan
            ELSE
                LET plan == GetItem(Structured_plan.v, "plan")
                    sub_questions == GetItem(Structured_plan.v, "sub_questions")
                IN  IF ~plan.ok THEN plan
                    ELSE IF ~sub_questions.ok THEN Ok([k \in {"plan"} |-> plan.v])
                    ELSE Ok([k \in {"plan", "sub_questions"} |->
                                IF k = "plan" THEN plan.v ELSE sub_questions.v])

planning_node(st, invoked) ==
    IF ~invoked.ok THEN invoked
    ELSE
        LET output_text == invoked.v[Len(invoked.v)].content
            Structured_plan == json_loads(output_text)
        IN  IF ~Structured_plan.ok THEN Structured_plan
            ELSE
                LET plan == GetItem(Structured_plan.v, "plan")
                    sub_questions == GetItem(Structured_plan.v, "sub_questions")
                IN  IF ~plan.ok THEN plan
                    ELSE IF ~sub_questions.ok THEN sub_questions
                    ELSE Ok([k \in {"plan", "sub_questions"} |->
                                IF k = "plan" THEN plan.v ELSE sub_questions.v])

----------------------------------------------------------------------------
(* Context Serializer and retrieval tool *)

Document(page_content, metadata) == [page_content |-> page_content, metadata |-> metadata]

\* dict.get(key, default)
DictGet(d, key, default) == IF key \in DOMAIN d THEN d[key] ELSE default

\* Python's `a or b`
PyOr(a, b) == IF Truthy(a) THEN a ELSE b

\* f"{v}"
Format(v) ==
    CASE v.t = "str" -> v.s
      [] v.t = "int" -> <<ToString(v.n)>>
      [] v.t = "None" -> <<"None">>
      [] OTHER -> <<"<repr>">>

chunk_part(idx, doc) ==
    LET page_num == PyOr(DictGet(doc.metadata, "page", None),
                         DictGet(doc.metadata, "page_number", Str(<<"unknown">>)))
        chunk_header == <<"Chunk ", ToString(idx), " (page=">> \o Format(page_num) \o <<"):">>
        chunk_content == strip(doc.page_content)
    IN  chunk_header \o <<"\n">> \o chunk_content

serialize_chunks(docs) ==
    LET context_parts == [idx \in 1..Len(docs) |-> chunk_part(idx, docs[idx])]
    IN  join(<<"\n", "\n">>, context_parts)

\* Passages the index holds
PassageP3 == Document(<<" ", "cosine", "\n">>, [k \in {"page"} |-> Num(3)])
PassageP0 == Document(<<"intro">>, [k \in {"page"} |-> Num(0)])

\* What retrieve(query, k) can return for one call
IndexResults == {<<>>, <<PassageP3, PassageP0>>}

\* retrieval_tool's content for the documents the index returned
retrieval_tool(docs) == serialize_chunks(docs)

\* The ToolMessage the agent's tool node makes of retrieval_tool's return value
\* (context, docs)
retrieval_tool_message(docs) == ToolMessage(retrieval_tool(docs), docs)

IndexUnreachable == Exc("PineconeException", <<"index unreachable">>)

----------------------------------------------------------------------------
(* retrieval_node *)

\* iter(v)
Iterate(v) ==
    CASE v.t = "list" -> Ok(v.l)
      [] v.t = "int" -> Raise(Exc("TypeError", <<"'int' object is not iterable">>))
      [] v.t = "None" -> Raise(Exc("TypeError", <<"'NoneType' object is not iterable">>))
      [] OTHER -> Ok(<<>>)

\* The HumanMessage content retrieval_node builds (lines 78-89)
retrieval_user_content(st) ==
    LET question == st["question"]
        plan == st["plan"]
        sub_questions == st["sub_questions"]
        head == <<"Question: ">> \o Format(question)
    IN  IF ~Truthy(plan) THEN Ok(head)
        ELSE IF ~Truthy(sub_questions) THEN Ok(head \o <<"\n\nPlan: ">> \o Format(plan))
        ELSE
            LET items == Iterate(sub_questions)
            IN  IF ~items.ok THEN items
                ELSE Ok(head \o <<"\n\nPlan: ">> \o Format(plan)
                             \o <<"\n\nSub-questions to address:\n">>
                             \o join(<<"\n">>,
                                     [i \in 1..Len(items.v) |-> <<"- ">> \o Format(items.v[i])]))

\* The query texts the coordinator was handed: the question and, when the
\* message lists them, the sub-questions
RetrievalQueries(st) ==
    {Format(st["question"])}
        \cup (IF Truthy(st["plan"]) /\ st["sub_questions"].t = "list"
              THEN {Format(st["sub_questions"].l[i]) : i \in 1..Len(st["sub_questions"].l)}
              ELSE {})

\* One retrieval_tool call: the query the agent chose and the documents the
\* index returned for it
ToolCalls(st) == [query : RetrievalQueries(st), docs : IndexResults]

\* The messages of a retrieval agent run that made the tool calls `calls`
RECURSIVE ToolExchange(_)
ToolExchange(calls) ==
    IF calls = <<>> THEN <<>>
    ELSE <<ToolCallMessage(Head(calls).query), retrieval_tool_message(Head(calls).docs)>>
            \o ToolExchange(Tail(calls))

RetrievalInvocations(st) ==
    LET user_content == retrieval_user_content(st)
    IN  IF ~user_content.ok THEN {user_content}
        ELSE {Raise(e) : e \in ModelErrors \cup {IndexUnreachable}}
                \cup {Ok(<<HumanMessage(user_content.v)>> \o ToolExchange(calls)
                            \o <<AIMessage(<<"CONTEXT">>)>>) :
                      calls \in SeqsUpTo(ToolCalls(st), MaxToolCalls)}

\* SelectSeq over message type
ToolContents(msgs) ==
    LET tool == SelectSeq(msgs, LAMBDA m : m.type = "ToolMessage")
    IN  [i \in 1..Len(tool) |-> tool[i].content]

\* (variant: a failed agent run is turned into an empty context)
retrieval_node_swallowing(st, invoked) ==
    IF ~invoked.ok THEN Ok([k \in {"context"} |-> Str(<<>>)])
    ELSE
        LET tool_contents == ToolContents(invoked.v)
            context == IF tool_contents # <<>> THEN join(<<"\n", "\n">>, tool_contents) ELSE <<>>
        IN  Ok([k \in {"context"} |-> Str(context)])

\* (variant: without tool output the node returns no context at all)
retrieval_node_no_context(st, invoked) ==
    IF ~invoked.ok THEN invoked
    ELSE
        LET tool_contents == ToolContents(invoked.v)
        IN  IF tool_contents # <<>>
            THEN Ok([k \in {"context"} |-> Str(join(<<"\n", "\n">>, tool_contents))])
            ELSE Ok([k \in {} |-> None])

retrieval_node(st, invoked) ==
    IF ~invoked.ok THEN invoked
    ELSE
        LET tool_contents == ToolContents(invoked.v)
            context == IF tool_contents # <<>> THEN join(<<"\n", "\n">>, tool_contents) ELSE <<>>
        IN  Ok([k \in {"context"} |-> Str(context)])

----------------------------------------------------------------------------
(* summarization_node and verification_node *)

\* (variant: without an assistant message the text of None is returned)
RECURSIVE _extract_last_ai_content_of_none(_)
_extract_last_ai_content_of_none(msgs) ==
    IF msgs = <<>> THEN <<"None">>
    ELSE IF msgs[Len(msgs)].type = "AIMessage" THEN msgs[Len(msgs)].content
    ELSE _extract_last_ai_content_of_none(SubSeq(msgs, 1, Len(msgs) - 1))

RECURSIVE _extract_last_ai_content(_)
_extract_last_ai_content(msgs) ==
    IF msgs = <<>> THEN <<>>
    ELSE IF msgs[Len(msgs)].type = "AIMessage" THEN msgs[Len(msgs)].content
    ELSE _extract_last_ai_content(SubSeq(msgs, 1, Len(msgs) - 1))

summarization_user_content(st) ==
    <<"Question: ">> \o Format(st["question"]) \o <<"\n\nContext:\n">> \o Format(st["context"])

SummarizationInvocations(st) ==
    {Raise(e) : e \in ModelErrors}
        \cup {Ok(<<HumanMessage(summarization_user_content(st))>> \o reply) :
              reply \in {<<>>, <<AIMessage(<<"draft">>)>>}}

\* (variant: a failed model call is answered with an empty draft)
summarization_node_defaulting(st, invoked) ==
    IF ~invoked.ok THEN Ok([k \in {"draft_answer"} |-> Str(<<>>)])
    ELSE Ok([k \in {"draft_answer"} |-> Str(_extract_last_ai_content(invoked.v))])

summarization_node(st, invoked) ==
    IF ~invoked.ok THEN invoked
    ELSE Ok([k \in {"draft_answer"} |-> Str(_extract_last_ai_content(invoked.v))])

verification_user_content(st) ==
    <<"Question: ">> \o Format(st["question"]) \o <<"\n\nContext:">> \o Format(st["context"])
        \o <<"\n\nDraft Answer:">> \o Format(st["draft_answer"])
        \o <<"\n\nPlease verify and correct the draft answer, removing any unsupported claims.">>

VerificationInvocations(st) ==
    {Raise(e) : e \in ModelErrors}
        \cup {Ok(<<HumanMessage(verification_user_content(st))>> \o reply) :
              reply \in {<<>>, <<AIMessage(<<"answer">>)>>}}

\* (variant: the verifier also stores its text over the draft)
verification_node_overwriting(st, invoked) ==
    IF ~invoked.ok THEN invoked
    ELSE Ok([k \in {"answer", "draft_answer"} |-> Str(_extract_last_ai_content(invoked.v))])

verification_node(st, invoked) ==
    IF ~invoked.ok THEN invoked
    ELSE Ok([k \in {"answer"} |-> Str(_extract_last_ai_content(invoked.v))])

----------------------------------------------------------------------------
(* The compiled graph (create_qa_graph) *)

START == "__start__"
END == "__end__"

Nodes == {"planning", "retrieval", "summarization", "verification"}

\* (variant: the planner is wired straight to the summarizer)
EdgesSkippingRetrieval ==
    {<<START, "planning">>,
     <<"planning", "summarization">>,
     <<"retrieval", "summarization">>,
     <<"summarization", "verification">>,
     <<"verification", END>>}

Edges ==
    {<<START, "planning">>,
     <<"planning", "retrieval">>,
     <<"retrieval", "summarization">>,
     <<"summarization", "verification">>,
     <<"verification", END>>}

\* The node the graph runs after `n` returned
Successor(n) == CHOOSE m \in Nodes \cup {END} : <<n, m>> \in Edges

----------------------------------------------------------------------------
(* run_qa_flow, answer_question and qa_endpoint *)

\* def run_qa_flow(question: str)
run_qa_flow_params == <<"question">>

\* Whether a call with `nargs` positional and `kwargs` keyword arguments binds
\* to run_qa_flow's parameters
run_qa_flow_binds(nargs, kwargs) ==
    /\ nargs <= Len(run_qa_flow_params)
    /\ \A k \in kwargs :
          \E i \in (nargs + 1)..Len(run_qa_flow_params) : run_qa_flow_params[i] = k

UnexpectedKeyword ==
    Exc("TypeError", <<"run_qa_flow() got an unexpected keyword argument 'use_planning'">>)

\* The dictionary run_qa_flow returns from the final state (lines 78-84)
run_qa_flow_result(final_state) ==
    [k \in {"answer", "plan", "sub_questions", "draft_answer", "context"} |-> final_state[k]]

\* QAResponse(answer=..., plan=..., sub_questions=..., context=...)
QAResponse(answer, plan, sub_questions, context) ==
    [answer |-> answer, plan |-> plan, sub_questions |-> sub_questions, context |-> context]

HttpOk(body) == [status |-> 200, body |-> body]
HttpError(status, detail) == [status |-> status, detail |-> detail]

\* (variant: every exception of the service call gets the placeholder answer)
endpoint_on_exception_lenient(exc) ==
    HttpOk(QAResponse(
        Str(<<"LLM unavailable: invalid or missing OpenAI API key. ",
              "Configure ", GraveAccent, "OPENAI_API_KEY", GraveAccent,
              " in the environment or ", GraveAccent, ".env", GraveAccent,
              " file.">>),
        None, None, Str(<<>>)))

\* qa_endpoint's `except Exception` branch (lines 87-104) followed by the
\* catch-all handler (lines 42-60)
endpoint_on_exception(exc) ==
    IF exc.cls = "AuthenticationError" \/ Contains(exc.msg, "Incorrect API key")
    THEN HttpOk(QAResponse(
            Str(<<"LLM unavailable: invalid or missing OpenAI API key. ",
                  "Configure ", GraveAccent, "OPENAI_API_KEY", GraveAccent,
                  " in the environment or ", GraveAccent, ".env", GraveAccent,
                  " file.">>),
            None, None, Str(<<>>)))
    ELSE HttpError(500, <<"Internal server error">>)

\* pydantic's validation of the QAResponse fields: answer: str,
\* plan: str | None, sub_questions: list[str] | None, context: str
QAResponseValid(answer, plan, sub_questions, context) ==
    /\ answer.t = "str"
    /\ plan.t \in {"str", "None"}
    /\ \/ sub_questions.t = "None"
       \/ /\ sub_questions.t = "list"
          /\ \A i \in 1..Len(sub_questions.l) : sub_questions.l[i].t = "str"
    /\ context.t = "str"

\* (variant: the whole dictionary of run_qa_flow is sent back)
endpoint_on_result_unfiltered(res) == HttpOk(res)

\* qa_endpoint's successful return (lines 107-112); a ValidationError raised
\* by QAResponse(...) goes to the catch-all handler
endpoint_on_result(res) ==
    IF QAResponseValid(res["answer"], res["plan"], res["sub_questions"], res["context"])
    THEN HttpOk(QAResponse(res["answer"], res["plan"], res["sub_questions"], res["context"]))
    ELSE HttpError(500, <<"Internal server error">>)

ViaEndpoint == call.via = "qa_endpoint"

\* An exception leaves graph.invoke and run_qa_flow, which catch nothing; when
\* the caller is qa_endpoint it is turned into the HTTP response.
Propagate(exc) ==
    /\ pc' = "Failed"
    /\ error' = exc
    /\ response' = IF ViaEndpoint THEN endpoint_on_exception(exc) ELSE NoResponse
    /\ UNCHANGED <<state, result>>

\* (variant: the run continues on the state record the process last used)
EnterGraphOnLastState(question) ==
    /\ state' = [state EXCEPT !["question"] = Str(question)]
    /\ pc' = Successor(START)
    /\ UNCHANGED <<error, result, response>>

\* run_qa_flow up to graph.invoke: the initial state enters the graph
EnterGraph(question) ==
    /\ state' = initial_state(question)
    /\ pc' = Successor(START)
    /\ UNCHANGED <<error, result, response>>

----------------------------------------------------------------------------
(* Actions *)

\* POST /qa: validation, then answer_question(question, use_planning=...),
\* which calls run_qa_flow(question, use_planning=use_planning)
QaEndpoint ==
    /\ pc = "request"
    /\ ViaEndpoint
    /\ LET question == strip(call.question)
       IN  IF question = <<>>
           THEN /\ pc' = "Rejected"
                /\ response' = HttpError(400, <<GraveAccent, "question", GraveAccent,
                                                " must be a non-empty string.">>)
                /\ UNCHANGED <<state, error, result, service>>
           ELSE /\ service' = [question |-> question, use_planning |-> call.use_planning]
                /\ IF run_qa_flow_binds(1, {"use_planning"})
                   THEN EnterGraph(question)
                   ELSE Propagate(UnexpectedKeyword)
    /\ UNCHANGED <<call, messages, trace, peer>>

\* A direct call run_qa_flow(question)
RunQaFlow ==
    /\ pc = "request"
    /\ ~ViaEndpoint
    /\ IF run_qa_flow_binds(1, {})
       THEN EnterGraph(call.question)
       ELSE Propagate(UnexpectedKeyword)
    /\ UNCHANGED <<call, messages, trace, service, peer>>

\* The record of one node execution: whether the node raised, and the
\* exception met inside it (by the agent call or the node's own code), if any
Executed(node, invoked, outcome) ==
    [node |-> node,
     raised |-> ~outcome.ok,
     exc |-> IF ~invoked.ok THEN invoked.exc
             ELSE IF ~outcome.ok THEN outcome.exc ELSE NoError]

\* (variant: a node's exception is caught and the graph moves on)
NodeStepContinuing(node, invoked, outcome) ==
    /\ trace' = Append(trace, Executed(node, invoked, outcome))
    /\ messages' = IF invoked.ok THEN invoked.v ELSE messages
    /\ state' = IF outcome.ok THEN Merge(state, outcome.v) ELSE state
    /\ pc' = Successor(node)
    /\ UNCHANGED <<call, service, error, result, response, peer>>

\* (variant: the state is one record of the process, which every call in
\* flight sees)
NodeStepSharedState(node, invoked, outcome) ==
    /\ trace' = Append(trace, Executed(node, invoked, outcome))
    /\ messages' = IF invoked.ok THEN invoked.v ELSE messages
    /\ IF outcome.ok
       THEN /\ state' = Merge(state, outcome.v)
            /\ pc' = Successor(node)
            /\ UNCHANGED <<error, result, response>>
       ELSE Propagate(outcome.exc)
    /\ peer' = IF peer = NoPeer THEN peer ELSE [peer EXCEPT !.state = state']
    /\ UNCHANGED <<call, service>>

\* The graph runs node `node`: `invoked` is what the agent's invoke did and
\* `outcome` what the node function made of it
NodeStep(node, invoked, outcome) ==
    /\ trace' = Append(trace, Executed(node, invoked, outcome))
    /\ messages' = IF invoked.ok THEN invoked.v ELSE messages
    /\ IF outcome.ok
       THEN /\ state' = Merge(state, outcome.v)
            /\ pc' = Successor(node)
            /\ UNCHANGED <<error, result, response>>
       ELSE Propagate(outcome.exc)
    /\ UNCHANGED <<call, service, peer>>

PlanningStep ==
    /\ pc = "planning"
    /\ \E invoked \in PlanningInvocations(state) :
          NodeStep("planning", invoked, planning_node(state, invoked))

RetrievalStep ==
    /\ pc = "retrieval"
    /\ \E invoked \in RetrievalInvocations(state) :
          NodeStep("retrieval", invoked, retrieval_node(state, invoked))

SummarizationStep ==
    /\ pc = "summarization"
    /\ \E invoked \in SummarizationInvocations(state) :
          NodeStep("summarization", invoked, summarization_node(state, invoked))

VerificationStep ==
    /\ pc = "verification"
    /\ \E invoked \in VerificationInvocations(state) :
          NodeStep("verification", invoked, verification_node(state, invoked))

\* graph.invoke returned the final state: run_qa_flow builds its result, and
\* qa_endpoint, when it is the caller, its response
ReturnResult ==
    /\ pc = END
    /\ pc' = "Done"
    /\ result' = run_qa_flow_result(state)
    /\ response' = IF ViaEndpoint THEN endpoint_on_result(result') ELSE NoResponse
    /\ UNCHANGED <<call, state, messages, trace, error, service, peer>>

----------------------------------------------------------------------------
(* Specification *)

QuestionChars == {" ", "q"}
Questions == SeqsUpTo(QuestionChars, MaxQuestionLen)

Calls ==
    {[via |-> "qa_endpoint", question |-> q, use_planning |-> b] :
        q \in Questions, b \in BOOLEAN}
        \cup {[via |-> "run_qa_flow", question |-> q] : q \in Questions}

Init ==
    /\ call \in Calls
    /\ pc = "request"
    /\ state = NoState
    /\ messages = <<>>
    /\ trace = <<>>
    /\ error = NoError
    /\ result = NoResult
    /\ service = NoCall
    /\ response = NoResponse
    /\ peer = NoPeer

Next ==
    \/ QaEndpoint
    \/ RunQaFlow
    \/ PlanningStep
    \/ RetrievalStep
    \/ SummarizationStep
    \/ VerificationStep
    \/ ReturnResult

Spec == Init /\ [][Next]_vars

----------------------------------------------------------------------------
(* The retrieval tool called on its own: retrieval_tool(query), with the   *)
(* configured Settings.retrieval_k and the index's ranking for the query   *)

\* k in retrieve(query, k=5), tools.py
ToolK == 5

\* Values of Settings.retrieval_k
ConfiguredKs == 1..MaxRetrievalK

\* The index's passages for a query, best first
Rankings == SeqsUpTo({PassageP3, PassageP0}, MaxDocs)

\* get_retriever(k): search_kwargs["k"]
get_retriever(k, settings) == IF k = None THEN Num(settings.retrieval_k) ELSE k

\* retrieve(query, k): the k best passages
retrieve(query, k, settings, ranked) ==
    LET asked == get_retriever(k, settings)
        n == IF asked.n < Len(ranked) THEN asked.n ELSE Len(ranked)
    IN  [k |-> asked, docs |-> SubSeq(ranked, 1, n)]

\* retrieval_tool(query): what the retriever was asked for, and the tool's
\* (content, artifact)
retrieval_tool_call(query, settings, ranked) ==
    LET found == retrieve(query, Num(ToolK), settings, ranked)
    IN  [k |-> found.k, content |-> serialize_chunks(found.docs), artifact |-> found.docs]

RetrieverCalls ==
    {[via |-> "retrieval_tool", query |-> q, settings |-> [retrieval_k |-> n], ranked |-> r] :
        q \in Questions, n \in ConfiguredKs, r \in Rankings}

RetrieverInit ==
    /\ call \in RetrieverCalls
    /\ pc = "request"
    /\ state = NoState
    /\ messages = <<>>
    /\ trace = <<>>
    /\ error = NoError
    /\ result = NoResult
    /\ service = NoCall
    /\ response = NoResponse
    /\ peer = NoPeer

RetrievalToolCall ==
    /\ pc = "request"
    /\ call.via = "retrieval_tool"
    /\ result' = retrieval_tool_call(call.query, call.settings, call.ranked)
    /\ pc' = "Done"
    /\ UNCHANGED <<call, state, messages, trace, error, service, response, peer>>

RetrieverSpec == RetrieverInit /\ [][RetrievalToolCall]_vars

----------------------------------------------------------------------------
(* One process serving several calls.  The compiled graph (get_qa_graph,   *)
(* lru_cache) and the agents are shared by all calls of the process; each  *)
(* call of run_qa_flow has its own initial_state, messages and result.     *)
(* The stages are the same nodes, with the agents' replies drawn from a    *)
(* few representative ones: a failure, a usable reply, an unusable one.    *)

CommonPlanning(st) ==
    {inv \in PlanningInvocations(st) :
        IF inv.ok THEN inv.v[Len(inv.v)].content \in {JsonText(WellFormedPlan), ProseText}
        ELSE inv.exc = APIConnectionError}

CommonRetrieval(st) ==
    {inv \in RetrievalInvocations(st) :
        IF inv.ok THEN Len(inv.v) <= 4 ELSE inv.exc = IndexUnreachable}

CommonSummarization(st) ==
    {inv \in SummarizationInvocations(st) : inv.ok \/ inv.exc = AuthenticationError}

CommonVerification(st) ==
    {inv \in VerificationInvocations(st) : inv.ok \/ inv.exc = APITimeoutError}

PlanningStepCommon ==
    /\ pc = "planning"
    /\ \E invoked \in CommonPlanning(state) :
          NodeStep("planning", invoked, planning_node(state, invoked))

RetrievalStepCommon ==
    /\ pc = "retrieval"
    /\ \E invoked \in CommonRetrieval(state) :
          NodeStep("retrieval", invoked, retrieval_node(state, invoked))

SummarizationStepCommon ==
    /\ pc = "summarization"
    /\ \E invoked \in CommonSummarization(state) :
          NodeStep("summarization", invoked, summarization_node(state, invoked))

VerificationStepCommon ==
    /\ pc = "verification"
    /\ \E invoked \in CommonVerification(state) :
          NodeStep("verification", invoked, verification_node(state, invoked))

\* Everything the process holds for the call at hand
Snapshot ==
    [call |-> call, pc |-> pc, state |-> state, messages |-> messages, trace |-> trace,
     error |-> error, result |-> result, service |-> service, response |-> response]

\* The record of a call that has been received and not yet handled
Received(c) ==
    [call |-> c, pc |-> "request", state |-> NoState, messages |-> <<>>, trace |-> <<>>,
     error |-> NoError, result |-> NoResult, service |-> NoCall, response |-> NoResponse]

Ended == pc \in {"Done", "Failed", "Rejected"}

\* Direct calls run_qa_flow(question)
DirectCalls == {c \in Calls : c.via = "run_qa_flow"}

SessionInit ==
    /\ call \in DirectCalls
    /\ pc = "request"
    /\ state = NoState
    /\ messages = <<>>
    /\ trace = <<>>
    /\ error = NoError
    /\ result = NoResult
    /\ service = NoCall
    /\ response = NoResponse
    /\ peer = NoPeer

\* Calls of run_qa_flow one after another: the call at hand has ended and
\* the process takes the next one.  What the ended call left behind is kept
\* as `peer`, and the state record it used is still the last one in memory.
NewRequest ==
    /\ Ended
    /\ peer' = Snapshot
    /\ call' \in DirectCalls
    /\ pc' = "request"
    /\ messages' = <<>>
    /\ trace' = <<>>
    /\ error' = NoError
    /\ result' = NoResult
    /\ service' = NoCall
    /\ response' = NoResponse
    /\ UNCHANGED state

SessionNext ==
    \/ RunQaFlow
    \/ PlanningStepCommon
    \/ RetrievalStepCommon
    \/ SummarizationStepCommon
    \/ VerificationStepCommon
    \/ ReturnResult
    \/ NewRequest

SessionSpec == SessionInit /\ [][SessionNext]_vars

\* Two calls in flight in the same process (two threads in run_qa_flow): the
\* scheduler leaves one between two of its steps and continues the other
Switch ==
    /\ peer # NoPeer
    /\ peer' = Snapshot
    /\ call' = peer.call
    /\ pc' = peer.pc
    /\ state' = peer.state
    /\ messages' = peer.messages
    /\ trace' = peer.trace
    /\ error' = peer.error
    /\ result' = peer.result
    /\ service' = peer.service
    /\ response' = peer.response

ConcurrentInit ==
    /\ call \in Calls
    /\ pc = "request"
    /\ state = NoState
    /\ messages = <<>>
    /\ trace = <<>>
    /\ error = NoError
    /\ result = NoResult
    /\ service = NoCall
    /\ response = NoResponse
    /\ peer \in {Received(c) : c \in Calls}

ConcurrentNext ==
    \/ QaEndpoint
    \/ RunQaFlow
    \/ PlanningStepCommon
    \/ RetrievalStepCommon
    \/ SummarizationStepCommon
    \/ VerificationStepCommon
    \/ ReturnResult
    \/ Switch

ConcurrentSpec == ConcurrentInit /\ [][ConcurrentNext]_vars

----------------------------------------------------------------------------
(* The boundary layer on its own: qa_endpoint as a function of the request *)
(* and of what the service call answer_question does for it                *)

\* An exception that wraps the provider's credential error
WrappedCredentialError ==
    Exc("RuntimeError", <<"planning failed: ", "Incorrect API key", " provided">>)

ServiceExceptions ==
    ModelErrors \cup
        {WrappedCredentialError,
         IndexUnreachable,
         UnexpectedKeyword,
         Exc("JSONDecodeError", <<"Expecting value: line 1 column 1 (char 0)">>),
         Exc("KeyError", <<"'sub_questions'">>)}

\* Dictionaries run_qa_flow returns
ServiceResults ==
    {run_qa_flow_result([k \in Fields |->
                            CASE k = "question" -> Str(<<"q">>)
                              [] k = "plan" -> plan
                              [] k = "sub_questions" -> sub_questions
                              [] k = "context" -> context
                              [] k = "draft_answer" -> Str(<<"draft">>)
                              [] k = "answer" -> answer]) :
        plan \in PlanValues,
        sub_questions \in {None, Num(5), List(<<Str(<<"a">>)>>)},
        context \in {Str(<<>>), Str(<<"Chunk ", "1", " (page=", "3", "):", "\n", "cosine">>)},
        answer \in {Str(<<>>), Str(<<"answer">>)}}

ServiceOutcomes == {Raise(e) : e \in ServiceExceptions} \cup {Ok(res) : res \in ServiceResults}

BoundaryCalls ==
    {[via |-> "qa_endpoint", question |-> q, use_planning |-> b, answer_question |-> o] :
        q \in Questions, b \in BOOLEAN, o \in ServiceOutcomes}

BoundaryInit ==
    /\ call \in BoundaryCalls
    /\ pc = "request"
    /\ state = NoState
    /\ messages = <<>>
    /\ trace = <<>>
    /\ error = NoError
    /\ result = NoResult
    /\ service = NoCall
    /\ response = NoResponse
    /\ peer = NoPeer

\* qa_endpoint (lines 63-112) with answer_question doing call.answer_question
QaEndpointBoundary ==
    /\ pc = "request"
    /\ "answer_question" \in DOMAIN call
    /\ LET question == strip(call.question)
           answered == call.answer_question
       IN  IF question = <<>>
           THEN /\ pc' = "Rejected"
                /\ response' = HttpError(400, <<GraveAccent, "question", GraveAccent,
                                                " must be a non-empty string.">>)
                /\ UNCHANGED <<error, result, service>>
           ELSE /\ service' = [question |-> question, use_planning |-> call.use_planning]
                /\ IF answered.ok
                   THEN /\ pc' = "Done"
                        /\ result' = answered.v
                        /\ response' = endpoint_on_result(answered.v)
                        /\ UNCHANGED error
                   ELSE /\ pc' = "Failed"
                        /\ error' = answered.exc
                        /\ response' = endpoint_on_exception(answered.exc)
                        /\ UNCHANGED result
    /\ UNCHANGED <<call, state, messages, trace, peer>>

BoundarySpec == BoundaryInit /\ [][QaEndpointBoundary]_vars

----------------------------------------------------------------------------
(* External calls that never return.  create_chat_model passes no timeout  *)
(* to ChatOpenAI and retrieve none to the retriever, and the nodes call    *)
(* agent.invoke without one: a call the provider or the index never        *)
(* answers blocks the node, and with it the run, for good.                 *)

\* A node makes its external call once it has built its message: the
\* planner, summarizer and verifier format theirs without iterating over
\* anything, retrieval_node raises before the call when sub_questions cannot
\* be iterated (lines 84-89 come before the invoke of line 91)
ReachesInvoke(node, st) ==
    node = "retrieval" => retrieval_user_content(st).ok

InvokeNeverReturns ==
    /\ pc \in Nodes
    /\ ReachesInvoke(pc, state)
    /\ pc' = "blocked"
    /\ UNCHANGED <<call, state, messages, trace, error, result, service, response, peer>>

LiveNext == Next \/ InvokeNeverReturns

\* The graph runs a node as soon as its predecessor returned, and a node
\* continues as soon as its agent's invoke returned or raised
FairSpec == Init /\ [][LiveNext]_vars /\ WF_vars(LiveNext)

----------------------------------------------------------------------------
(* The Context Serializer called on its own: serialize_chunks(docs) *)

PageContents == {<<" ", "cosine", "\n">>, <<"intro">>}

\* doc.metadata: "page" and "page_number" each present or not
Metadatas ==
    UNION {{m \in [K -> {Num(0), Num(3), Num(7)}] :
                /\ "page" \in K => m["page"] \in {Num(0), Num(3)}
                /\ "page_number" \in K => m["page_number"] = Num(7)} :
           K \in SUBSET {"page", "page_number"}}

Passages == {Document(c, m) : c \in PageContents, m \in Metadatas}

SerializerCalls ==
    {[via |-> "serialize_chunks", docs |-> docs] : docs \in SeqsUpTo(Passages, MaxDocs)}

SerializerInit ==
    /\ call \in SerializerCalls
    /\ pc = "request"
    /\ state = NoState
    /\ messages = <<>>
    /\ trace = <<>>
    /\ error = NoError
    /\ result = NoResult
    /\ service = NoCall
    /\ response = NoResponse
    /\ peer = NoPeer

SerializeChunks ==
    /\ pc = "request"
    /\ call.via = "serialize_chunks"
    /\ result' = Str(serialize_chunks(call.docs))
    /\ pc' = "Done"
    /\ UNCHANGED <<call, state, messages, trace, error, service, response, peer>>

SerializerSpec == SerializerInit /\ [][SerializeChunks]_vars

----------------------------------------------------------------------------
(* Properties *)

PipelineOrder == <<"planning", "retrieval", "summarization", "verification">>

TraceNodes == [i \in 1..Len(trace) |-> trace[i].node]

IsBlank(text) == \A i \in 1..Len(text) : text[i] \in Whitespace

\* The planning stage has run and its agent returned a final message
PlannerReplied == Len(trace) = 1 /\ trace[1].node = "planning" /\ messages # <<>>
PlannerReply == messages[Len(messages)].content

\* The planning stage has run and succeeded
PlannerSucceeded == Len(trace) >= 1 /\ trace[1].node = "planning" /\ ~trace[1].raised

\* C1: in a run of the graph the stages execute in the order planning,
\* retrieval, summarization, verification, each at most once and none skipped
\* (the executed stages are always a prefix of that order); once all four have
\* succeeded the run returns, and a returned run has executed exactly the four.
C1_StagesInOrderOnce ==
    /\ \E k \in 0..Len(PipelineOrder) : TraceNodes = SubSeq(PipelineOrder, 1, k)
    /\ (Len(trace) = Len(PipelineOrder) /\ \A i \in 1..Len(trace) : ~trace[i].raised)
          => pc \in {END, "Done"}
    /\ pc = "Done" => (TraceNodes = PipelineOrder /\ result # NoResult /\ error = NoError)

C1_Witness == pc = "Done" /\ TraceNodes = PipelineOrder

\* C2 (as claimed): a request whose caller disabled planning runs retrieval as
\* its first stage, never the planner, and plan and sub_questions stay absent
\* up to and including the returned result.
C2_PlanningDisabledSkipsPlanner ==
    (service # NoCall /\ ~service.use_planning /\ pc \in {"Done", "Failed"})
        => /\ trace # <<>>
           /\ trace[1].node = "retrieval"
           /\ state["plan"] = None
           /\ state["sub_questions"] = None

\* C3 (as claimed): a call of the service layer with a question and a planning
\* flag raises only when some stage failed; otherwise it returns the result.
C3_ServiceCallRaisesOnlyOnStageFailure ==
    (service # NoCall /\ pc = "Failed") => (trace # <<>> /\ trace[Len(trace)].raised)

\* C4: a stage that raises is the last stage executed in its run; the run is
\* then in Failed, the error leaving run_qa_flow is the very exception that
\* stage raised (not another one, not a wrapped one) and no result is
\* returned.  Conversely a run is Failed only with an error, and a Failed run
\* that executed a stage failed in its last stage with that stage's exception.
C4_StageFailureAborts ==
    /\ \A i \in 1..Len(trace) :
          trace[i].raised =>
              /\ i = Len(trace)
              /\ pc = "Failed"
              /\ trace[i].exc # NoError
              /\ error = trace[i].exc
              /\ result = NoResult
    /\ pc = "Failed" <=> error # NoError
    /\ (pc = "Failed" /\ trace # <<>>) =>
          /\ trace[Len(trace)].raised
          /\ error = trace[Len(trace)].exc

C4_Witness ==
    /\ pc = "Failed"
    /\ Len(trace) = 2
    /\ trace[2].raised
    /\ trace[2].exc = IndexUnreachable
    /\ error = IndexUnreachable
    /\ result = NoResult

\* C5: a request to qa_endpoint whose question is empty or only whitespace is
\* answered 400 before any stage runs and before the service is called; every
\* question qa_endpoint hands to the service is non-blank and trimmed.
C5_BlankQuestionRejected ==
    /\ (ViaEndpoint /\ pc # "request" /\ IsBlank(call.question))
          => /\ pc = "Rejected"
             /\ response.status = 400
             /\ trace = <<>>
             /\ service = NoCall
             /\ state = NoState
    /\ service # NoCall
          => /\ ~IsBlank(service.question)
             /\ Head(service.question) \notin Whitespace
             /\ service.question[Len(service.question)] \notin Whitespace
    /\ pc = "Rejected" => IsBlank(call.question)

C5_Witness == pc = "Rejected" /\ call.question # <<>> /\ response.status = 400

\* The planner's reply is not a JSON object holding plan and sub_questions
PlannerReplyMalformed ==
    \/ PlannerReply.form # "json"
    \/ PlannerReply.doc.t # "dict"
    \/ ~({"plan", "sub_questions"} \subseteq DOMAIN PlannerReply.doc.d)

\* C6: when the planner's final message cannot be read as the plan record (it
\* is not one JSON document, or not an object with plan and sub_questions),
\* the planning stage raises (JSONDecodeError for text that is not JSON): the
\* run is Failed with that error, which is no model-client error and does not
\* take qa_endpoint's credentials branch; nothing is written, no result is
\* returned and no other stage has run.
C6_MalformedPlanPropagates ==
    (PlannerReplied /\ PlannerReplyMalformed)
        => /\ trace[1].raised
           /\ pc = "Failed"
           /\ error.cls \in {"JSONDecodeError", "TypeError", "KeyError"}
           /\ PlannerReply.form # "json" => error.cls = "JSONDecodeError"
           /\ \A e \in ModelErrors : e.cls # error.cls
           /\ endpoint_on_exception(error) # endpoint_on_exception(AuthenticationError)
           /\ endpoint_on_exception(error).status = 500
           /\ state["plan"] = None /\ state["sub_questions"] = None
           /\ result = NoResult

C6_Witness ==
    /\ PlannerReplied
    /\ PlannerReply = ProseAroundJson(WellFormedPlan)
    /\ pc = "Failed"

\* C7 (as claimed): the planning stage succeeds only on a JSON object with
\* exactly the two fields plan and sub_questions.
C7_PlannerAcceptsExactlyTwoFields ==
    (PlannerReplied /\ ~trace[1].raised)
        => /\ PlannerReply.form = "json"
           /\ PlannerReply.doc.t = "dict"
           /\ DOMAIN PlannerReply.doc.d = {"plan", "sub_questions"}

\* C8 (as claimed): for a non-blank question, once the planning stage has
\* succeeded the state holds one plan text and a sub_questions list of at
\* least one entry, every entry a non-empty text.
C8_PlannerSuccessGivesPlanAndSubQuestions ==
    (PlannerSucceeded /\ ~IsBlank(state["question"].s))
        => /\ state["plan"].t = "str"
           /\ state["sub_questions"].t = "list"
           /\ Len(state["sub_questions"].l) >= 1
           /\ \A i \in 1..Len(state["sub_questions"].l) :
                 /\ state["sub_questions"].l[i].t = "str"
                 /\ state["sub_questions"].l[i].s # <<>>

\* C9 (as claimed): in every state sub_questions is absent exactly when plan
\* is absent.
C9_SubQuestionsAbsentIffPlanAbsent ==
    (state["sub_questions"] = None) <=> (state["plan"] = None)

Owned(node) ==
    CASE node = "planning" -> {"plan", "sub_questions"}
      [] node = "retrieval" -> {"context"}
      [] node = "summarization" -> {"draft_answer"}
      [] node = "verification" -> {"answer"}

\* C10: the step in which a stage executes changes no state field other than
\* the fields that stage owns; a step in which no stage executes (the return
\* of the result) changes no field at all once the run has started.
C10_StagesWriteOnlyOwnedFields ==
    [][/\ trace' # trace =>
            \A f \in Fields \ Owned(trace'[Len(trace')].node) : state'[f] = state[f]
       /\ (trace' = trace /\ pc # "request") => state' = state]_vars

C10_Witness ==
    /\ pc = "Done"
    /\ state["draft_answer"] = Str(<<"draft">>)
    /\ state["answer"] = Str(<<"answer">>)
    /\ state["context"] # Str(<<>>)
    /\ state["plan"] = Str(<<"p">>)

----------------------------------------------------------------------------
(* Failed stages, retrieval, serializer (C11..C20) *)

\* The planner replied with a JSON object that has plan but no sub_questions
PlanOnlyReply ==
    /\ PlannerReplied
    /\ PlannerReply.form = "json"
    /\ PlannerReply.doc.t = "dict"
    /\ "plan" \in DOMAIN PlannerReply.doc.d
    /\ "sub_questions" \notin DOMAIN PlannerReply.doc.d

\* C11: no stage executes twice in a run and fields change only in a step
\* that executes a stage, so every field is written at most once; a step in
\* which the stage raises leaves every field of the state as it was; and after
\* a planner reply that has plan but no sub_questions the stage has raised and
\* both fields are still absent.
C11_FailedStageWritesNothing ==
    [][/\ trace' # trace =>
            /\ \A i \in 1..Len(trace) : trace[i].node # trace'[Len(trace')].node
            /\ trace'[Len(trace')].raised => state' = state
       /\ (trace' = trace /\ pc # "request") => state' = state
       /\ PlanOnlyReply' =>
            /\ trace'[1].raised
            /\ state'["plan"] = None
            /\ state'["sub_questions"] = None]_vars

C11_Witness ==
    /\ PlanOnlyReply
    /\ PlannerReply.doc.d["plan"] = Str(<<"p">>)
    /\ trace[1].raised
    /\ state["plan"] = None
    /\ state["sub_questions"] = None

\* The retrieval stage has just run and its agent returned its messages
RetrievalReplied ==
    /\ Len(trace) = 2
    /\ trace[2].node = "retrieval"
    /\ trace[2].exc = NoError

\* The documents each retrieval call of the stage got from the index, and the
\* query of each call, in call order
RetrievedPerCall ==
    LET tool == SelectSeq(messages, LAMBDA m : m.type = "ToolMessage")
    IN  [i \in 1..Len(tool) |-> tool[i].artifact]

QueriesIssued ==
    LET asked == SelectSeq(messages, LAMBDA m : m.type = "AIMessage" /\ "tool_calls" \in DOMAIN m)
    IN  {asked[i].tool_calls[1] : i \in 1..Len(asked)}

\* C12 (as claimed): when every retrieval call of the stage returned zero
\* passages, however many calls there were, the stage has succeeded, context
\* is exactly the empty string and the run is at summarization.
C12_NoPassagesGivesEmptyContext ==
    (RetrievalReplied /\ \A i \in 1..Len(RetrievedPerCall) : RetrievedPerCall[i] = <<>>)
        => /\ ~trace[2].raised
           /\ state["context"] = Str(<<>>)
           /\ pc = "summarization"

RECURSIVE Flatten(_)
Flatten(seqs) == IF seqs = <<>> THEN <<>> ELSE Head(seqs) \o Flatten(Tail(seqs))

\* C13 (as claimed): the context the retrieval stage writes is the serializer
\* applied once to all passages of all its calls in call order, chunks
\* numbered 1..N across calls, calls without passages contributing nothing.
C13_ContextIsOneSerialization ==
    RetrievalReplied => state["context"] = Str(serialize_chunks(Flatten(RetrievedPerCall)))

SubQuestionsAvailable ==
    state["sub_questions"].t = "list" /\ state["sub_questions"].l # <<>>

\* C14 (as claimed): a retrieval stage that succeeded has issued a retrieval
\* call for each sub-question when sub_questions are available, and a call
\* with the raw question when there is no plan.
C14_RetrievalCallPerSubQuestion ==
    (RetrievalReplied /\ ~trace[2].raised)
        => /\ SubQuestionsAvailable =>
                \A i \in 1..Len(state["sub_questions"].l) :
                    Format(state["sub_questions"].l[i]) \in QueriesIssued
           /\ state["plan"] = None => state["question"].s \in QueriesIssued

\* `part` occurs in `text`
HasSubSeq(text, part) ==
    \E i \in 0..(Len(text) - Len(part)) : SubSeq(text, i + 1, i + Len(part)) = part

\* The content of the message retrieval_node handed to the coordinator
HandedOver == messages[1].content

\* C15 (as claimed): the message handed to the coordinator lists every
\* sub-question whenever sub_questions is a non-empty list, whatever plan is,
\* and is the raw question alone exactly when no sub-questions are available.
C15_SubQuestionsHandedWhateverPlan ==
    RetrievalReplied
        => /\ SubQuestionsAvailable =>
                \A i \in 1..Len(state["sub_questions"].l) :
                    HasSubSeq(HandedOver, <<"- ">> \o Format(state["sub_questions"].l[i]))
           /\ ~SubQuestionsAvailable <=> HandedOver = <<"Question: ">> \o state["question"].s

\* C16: when the index is unreachable during the retrieval agent's run, the
\* retrieval stage raises that exception and is the last stage executed; the
\* run is Failed with it, returns no result, and context, draft_answer and
\* answer are absent.
C16_IndexUnreachableAbortsRun ==
    \A i \in 1..Len(trace) :
        trace[i].exc = IndexUnreachable
            => /\ i = Len(trace)
               /\ trace[i].node = "retrieval"
               /\ trace[i].raised
               /\ pc = "Failed"
               /\ error = IndexUnreachable
               /\ result = NoResult
               /\ state["context"] = None
               /\ state["draft_answer"] = None
               /\ state["answer"] = None

C16_Witness ==
    /\ Len(trace) = 2
    /\ trace[2].exc = IndexUnreachable
    /\ state["plan"] = Str(<<"p">>)
    /\ state["sub_questions"] = List(<<Str(<<"a">>)>>)
    /\ state["draft_answer"] = None

\* serialize_chunks has returned
Serialized == call.via = "serialize_chunks" /\ pc = "Done"

HasPageReference(doc) ==
    "page" \in DOMAIN doc.metadata \/ "page_number" \in DOMAIN doc.metadata

\* A passage's page reference as text: its page, else its page_number
PageReference(doc) ==
    IF "page" \in DOMAIN doc.metadata THEN Format(doc.metadata["page"])
    ELSE Format(doc.metadata["page_number"])

\* A text without its leading and trailing whitespace
Trimmed(text) ==
    LET solid == {i \in 1..Len(text) : text[i] \notin Whitespace}
    IN  IF solid = {} THEN <<>>
        ELSE SubSeq(text, CHOOSE i \in solid : \A j \in solid : i <= j,
                          CHOOSE i \in solid : \A j \in solid : i >= j)

ExpectedHeader(i, doc) ==
    <<"Chunk ", ToString(i), " (page=">>
        \o (IF HasPageReference(doc) THEN PageReference(doc) ELSE <<"unknown">>)
        \o <<"):">>

\* Entries i..Len(docs), each followed by a blank line except the last
RECURSIVE ExpectedEntries(_, _)
ExpectedEntries(docs, i) ==
    IF i > Len(docs) THEN <<>>
    ELSE ExpectedHeader(i, docs[i]) \o <<"\n">> \o Trimmed(docs[i].page_content)
            \o (IF i < Len(docs) THEN <<"\n", "\n">> ELSE <<>>)
            \o ExpectedEntries(docs, i + 1)

\* C17 (as claimed): for n >= 0 passages the serializer's output is exactly n
\* entries in input order, the i-th a header line with index i and the
\* passage's page reference, then the passage's trimmed content, entries
\* separated by one blank line; the empty string for n = 0.
C17_SerializerOutputFormat ==
    Serialized => result = Str(ExpectedEntries(call.docs, 1))

\* C18 (as claimed): the header of the i-th entry shows "unknown" only when
\* the passage has no page reference, and shows the page whenever a page is
\* present, page 0 included.
C18_UnknownOnlyWithoutPageReference ==
    Serialized =>
        \A i \in 1..Len(call.docs) :
            /\ HasSubSeq(result.s, <<"Chunk ", ToString(i), " (page=", "unknown", "):">>)
                    => ~HasPageReference(call.docs[i])
            /\ "page" \in DOMAIN call.docs[i].metadata
                    => HasSubSeq(result.s, <<"Chunk ", ToString(i), " (page=">>
                                    \o Format(call.docs[i].metadata["page"]) \o <<"):">>)

\* C20: whenever the run is about to execute summarization, context is a
\* string; whenever it is about to execute verification, context and
\* draft_answer are strings; and a stage that has executed had them so.
C20_StageInputsPresent ==
    /\ (pc = "summarization" \/ Len(trace) >= 3) => state["context"].t = "str"
    /\ (pc = "verification" \/ Len(trace) >= 4)
            => state["context"].t = "str" /\ state["draft_answer"].t = "str"

C20_Witness ==
    /\ pc = "verification"
    /\ state["context"] = Str(<<>>)
    /\ state["draft_answer"] = Str(<<"draft">>)

----------------------------------------------------------------------------
(* Timeouts, the boundary layer, runs and requests (C21..C28) *)

\* C21 (as claimed): every run eventually reaches Done or Failed (a request
\* rejected before the pipeline ends as Rejected), because a stage whose
\* external call never returns fails with a timeout instead of waiting.
C21_EveryRunEnds == <>(pc \in {"Done", "Failed", "Rejected"})

\* Exceptions that report the provider's rejection of the configured API key
CredentialErrors == {AuthenticationError, WrappedCredentialError}

LabelledDegraded(body) ==
    /\ body.answer.t = "str"
    /\ body.answer.s # <<>>
    /\ Head(body.answer.s) = "LLM unavailable: invalid or missing OpenAI API key. "

\* C22: a request whose service call failed gets a 200 response body only
\* when the exception reports rejected credentials; that body's answer is the
\* "LLM unavailable" text, its context is the empty string and its plan and
\* sub_questions are absent; every other failure gets the 500 error without a
\* body.
C22_DegradedOnlyForCredentials ==
    (pc = "Failed" /\ ViaEndpoint)
        => /\ response.status \in {200, 500}
           /\ response.status = 200
                => /\ error \in CredentialErrors
                   /\ LabelledDegraded(response.body)
                   /\ response.body.context = Str(<<>>)
                   /\ response.body.plan = None
                   /\ response.body.sub_questions = None
                   /\ DOMAIN response.body = {"answer", "plan", "sub_questions", "context"}
           /\ response.status = 500 => "body" \notin DOMAIN response

C22_Witness ==
    /\ pc = "Failed"
    /\ error = AuthenticationError
    /\ response.status = 200
    /\ LabelledDegraded(response.body)
    /\ response.body.context = Str(<<>>)

\* C23: an exception met in a stage, other than one reporting rejected
\* credentials, ends the run at that stage: the exception itself leaves
\* run_qa_flow, no result dictionary is returned, no 200 response is sent,
\* and qa_endpoint turns that exception into the 500 error, never into a
\* response body with an answer.
C23_StageFailuresSurface ==
    \A i \in 1..Len(trace) :
        (trace[i].exc # NoError /\ trace[i].exc \notin CredentialErrors)
            => /\ i = Len(trace)
               /\ trace[i].raised
               /\ pc = "Failed"
               /\ error = trace[i].exc
               /\ result = NoResult
               /\ response.status # 200
               /\ endpoint_on_exception(error) = HttpError(500, <<"Internal server error">>)

C23_Witness ==
    /\ Len(trace) = 3
    /\ trace[3].node = "summarization"
    /\ trace[3].exc = APIConnectionError
    /\ error = APIConnectionError
    /\ result = NoResult

\* The question the current call gave run_qa_flow
RunQuestion == IF ViaEndpoint THEN service.question ELSE call.question

\* The current call has entered the graph
InGraph == pc \in Nodes \cup {END, "Done"} \/ trace # <<>>

\* C24: whatever calls the process served before, a run enters the planner
\* with a state in which question is the question of this call and plan,
\* sub_questions, context, draft_answer and answer are absent; afterwards a
\* field is present only if its stage succeeded in this run, and the returned
\* dictionary is made of this run's state.
C24_RunStartsFresh ==
    /\ pc = "planning"
          => /\ state["question"] = Str(RunQuestion)
             /\ \A f \in Fields \ {"question"} : state[f] = None
    /\ InGraph
          => /\ state["question"] = Str(RunQuestion)
             /\ \A node \in Nodes : \A f \in Owned(node) :
                    state[f] # None
                        => \E i \in 1..Len(trace) : trace[i].node = node /\ ~trace[i].raised
    /\ pc = "Done" => result = run_qa_flow_result(state)

\* A call has passed the planner after an earlier call of the process ran to
\* the end and returned its answer
C24_Witness ==
    /\ peer # NoPeer
    /\ peer.pc = "Done"
    /\ peer.state["answer"] = Str(<<"answer">>)
    /\ peer.state["question"] # state["question"]
    /\ pc = "retrieval"
    /\ state["plan"] = Str(<<"p">>)
    /\ state["context"] = None
    /\ state["answer"] = None

\* The record r of a call holds only what that call's own run produced: its
\* question is the call's question, and a field is present only if its stage
\* succeeded in r's own trace
OwnRecord(r) ==
    (r.pc \in Nodes \cup {END, "Done"} \/ r.trace # <<>>)
        => /\ r.state["question"] =
                Str(IF r.call.via = "qa_endpoint" THEN r.service.question ELSE r.call.question)
           /\ \A node \in Nodes : \A f \in Owned(node) :
                  r.state[f] # None
                      => \E i \in 1..Len(r.trace) :
                            r.trace[i].node = node /\ ~r.trace[i].raised

\* C25: with two calls in flight, under every interleaving of their steps, a
\* step of one call leaves the whole record of the other as it was (a switch
\* between them changes neither), and each record holds only what its own
\* call's stages wrote.
C25_RequestsIsolated ==
    [][/\ \/ peer' = peer
          \/ peer' = Snapshot /\ Snapshot' = peer
       /\ OwnRecord(Snapshot)'
       /\ OwnRecord(peer)']_vars

C25_Witness ==
    /\ pc = "summarization"
    /\ state["draft_answer"] = None
    /\ state["context"] = Str(<<>>)
    /\ peer.pc = "verification"
    /\ peer.state["question"] # state["question"]
    /\ peer.state["context"] # Str(<<>>)
    /\ peer.state["draft_answer"] = Str(<<"draft">>)

\* C26: the 200 response of qa_endpoint for a returned run has exactly the
\* fields answer, plan, sub_questions and context, with the values of the
\* returned dictionary; draft_answer, which that dictionary holds, is not in
\* it.  A returned dictionary the response model rejects gets the 500 error
\* without a body.
C26_ResponseExposesFourFields ==
    (pc = "Done" /\ "answer_question" \in DOMAIN call)
        => /\ "draft_answer" \in DOMAIN result
           /\ response.status \in {200, 500}
           /\ response.status = 200
                => /\ DOMAIN response.body = {"answer", "plan", "sub_questions", "context"}
                   /\ \A f \in DOMAIN response.body : response.body[f] = result[f]
           /\ response.status = 500 => DOMAIN response = {"status", "detail"}

C26_Witness ==
    /\ pc = "Done"
    /\ response.status = 200
    /\ result["draft_answer"] = Str(<<"draft">>)
    /\ response.body.answer = Str(<<"answer">>)
    /\ response.body.plan = Str(<<"p">>)
    /\ response.body.context # Str(<<>>)

\* C27 (as claimed): a retrieval call asks the retriever for as many passages
\* as Settings.retrieval_k says.
C27_RetrievalAsksConfiguredK ==
    (call.via = "retrieval_tool" /\ pc = "Done")
        => result.k = Num(call.settings.retrieval_k)

\* The agent's returned messages hold no assistant message
NoAssistantMessage == \A i \in 1..Len(messages) : messages[i].type # "AIMessage"

\* C28: when the summarization agent returned messages without an assistant
\* message the stage has not raised, draft_answer is the empty string and the
\* run is at verification; likewise for the verification agent, answer is the
\* empty string and the run goes on to return it; a draft_answer or answer
\* once written stays as it is to the end of the run.
C28_NoAssistantMessageGivesEmptyText ==
    [][/\ (Len(trace) = 3 /\ trace[3].exc = NoError /\ NoAssistantMessage)'
            => (~trace[3].raised /\ state["draft_answer"] = Str(<<>>) /\ pc = "verification")'
       /\ (Len(trace) = 4 /\ trace[4].exc = NoError /\ NoAssistantMessage)'
            => (/\ ~trace[4].raised
                /\ state["answer"] = Str(<<>>)
                /\ pc \in {END, "Done"}
                /\ pc = "Done" => result["answer"] = Str(<<>>))'
       /\ \A f \in {"draft_answer", "answer"} :
            state[f] # None => state'[f] = state[f]
       /\ pc' = "Done" => \A f \in {"draft_answer", "answer"} : result'[f] = state'[f]]_vars

C28_Witness ==
    /\ pc = "Done"
    /\ NoAssistantMessage
    /\ state["draft_answer"] = Str(<<>>)
    /\ result["draft_answer"] = Str(<<>>)
    /\ result["answer"] = Str(<<>>)

====
